---------------------------- MODULE Spec2Model ----------------------------
(***************************************************************************)
(* Model of RegressaoLinearManual (regressao_linear.py) and of its callers *)
(* in analisador_acoes.py.                                                 *)
(*                                                                         *)
(* Numbers.  The engine computes on numpy float64 arrays (dtype=float).    *)
(* A float is modelled as a reduced fraction <<n, d>> with d > 0, and NaN  *)
(* as <<0, 0>>.  Every arithmetic operation computes the exact result and  *)
(* rounds it to the nearest value with Precisao significant bits, ties to  *)
(* even, as IEEE 754 does with 53 bits.  The exponent range is not         *)
(* bounded (no overflow to infinity, no subnormals) and the sign of zero   *)
(* is not kept.                                                            *)
(***************************************************************************)
EXTENDS Integers, Sequences, FiniteSets, TLC

\* significant bits of a float (53 for float64)
Precisao == 4

NaN == <<0, 0>>
Zero == <<0, 1>>
Um == <<1, 1>>

IsNaN(x) == x[2] = 0

AbsInt(n) == IF n < 0 THEN -n ELSE n

RECURSIVE GCD(_, _)
GCD(a, b) == IF b = 0 THEN a ELSE GCD(b, a % b)

\* n/d with the common divisor g taken out
FracG(n, d, g) == <<n \div g, d \div g>>

\* the reduced fraction n/d, d > 0
Frac(n, d) == FracG(n, d, GCD(AbsInt(n), d))

\* the float of the integer n, n small enough to be exact
DeInt(n) == <<n, 1>>

\* <<a', b'>> with a'/b' = (a/b) * 2^j and 2^(Precisao-1) <= a'/b' < 2^Precisao
RECURSIVE Normaliza(_, _)
Normaliza(a, b) ==
    IF a >= b * 2^Precisao THEN Normaliza(a, 2 * b)
    ELSE IF a < b * 2^(Precisao - 1) THEN Normaliza(2 * a, b)
    ELSE <<a, b>>

\* round half to even: the quotient q with remainder r of a division by b,
\* sticky telling that the exact value lies strictly above q + r/b
ArredPar(q, r, b, sticky) ==
    IF 2 * r > b \/ (2 * r = b /\ (sticky \/ q % 2 = 1)) THEN q + 1 ELSE q

\* a/b rounded, s being a/b scaled to Precisao bits before the point
ArredEscala(a, b, s) ==
    Frac(ArredPar(s[1] \div s[2], s[1] % s[2], s[2], FALSE) * (s[2] \div b), s[1] \div a)

\* the float nearest to a/b, a > 0, b > 0
ArredPos(a, b) == ArredEscala(a, b, Normaliza(a, b))

Neg(x) == <<-x[1], x[2]>>

\* the float nearest to the exact value n/d (d >= 0; d = 0 is NaN)
Fl(n, d) ==
    IF d = 0 THEN NaN
    ELSE IF n = 0 THEN Zero
    ELSE IF n > 0 THEN ArredPos(n, d)
    ELSE Neg(ArredPos(-n, d))

Add(x, y) == IF IsNaN(x) \/ IsNaN(y) THEN NaN
             ELSE Fl(x[1] * y[2] + y[1] * x[2], x[2] * y[2])

Sub(x, y) == IF IsNaN(x) \/ IsNaN(y) THEN NaN
             ELSE Fl(x[1] * y[2] - y[1] * x[2], x[2] * y[2])

Mul(x, y) == IF IsNaN(x) \/ IsNaN(y) THEN NaN
             ELSE Fl(x[1] * y[1], x[2] * y[2])

\* float division; the engine divides by zero only as 0.0/0 (mean of an
\* empty array), which numpy evaluates to nan
Div(x, y) == IF IsNaN(x) \/ IsNaN(y) \/ y[1] = 0 THEN NaN
             ELSE IF y[1] > 0 THEN Fl(x[1] * y[2], x[2] * y[1])
             ELSE Fl(-(x[1] * y[2]), x[2] * (-y[1]))

Abs(x) == <<AbsInt(x[1]), x[2]>>

\* x ** 2
Sq(x) == Mul(x, x)

\* comparisons; every comparison with NaN is false, and NaN != x is true
Lt(x, y) == ~IsNaN(x) /\ ~IsNaN(y) /\ x[1] * y[2] < y[1] * x[2]
Eq(x, y) == ~IsNaN(x) /\ ~IsNaN(y) /\ x = y
Ne(x, y) == ~Eq(x, y)

\* floor of the square root of the natural n, searched in lo..hi
RECURSIVE ISqrtIn(_, _, _)
ISqrtIn(n, lo, hi) ==
    IF lo = hi THEN lo
    ELSE IF ((lo + hi + 1) \div 2) * ((lo + hi + 1) \div 2) <= n
         THEN ISqrtIn(n, (lo + hi + 1) \div 2, hi)
         ELSE ISqrtIn(n, lo, ((lo + hi + 1) \div 2) - 1)

\* an upper bound of the square root of n: the first power of two above it
RECURSIVE SqrtTeto(_, _)
SqrtTeto(n, p) == IF p * p > n THEN p ELSE SqrtTeto(n, 2 * p)

ISqrt(n) == ISqrtIn(n, 0, SqrtTeto(n, 1))

\* n * 4^j, the first such value with at least 2 * (Precisao + 1) bits
RECURSIVE Escala4(_)
Escala4(n) == IF n >= 4^(Precisao + 1) THEN n ELSE Escala4(4 * n)

\* r = floor(sqrt(n)) rounded, s being r scaled to Precisao bits
SqrtArred(n, r, s) == ArredPar(r \div s[2], r % s[2], s[2], r * r # n) * s[2]

\* sqrt(a/b) = sqrt(n)/(b * 2^j) for n = a * b * 4^j
SqrtEscala(a, b, n, r) == Frac(SqrtArred(n, r, Normaliza(r, 1)), b * ISqrt((n \div a) \div b))

SqrtN(a, b, n) == SqrtEscala(a, b, n, ISqrt(n))

\* the float nearest to sqrt(a/b), a > 0, b > 0
SqrtPos(a, b) == SqrtN(a, b, Escala4(a * b))

Sqrt(x) == IF IsNaN(x) \/ x[1] < 0 THEN NaN
           ELSE IF x[1] = 0 THEN Zero
           ELSE SqrtPos(x[1], x[2])

(***************************************************************************)
(* numpy arrays: sequences of floats.  A binary operation on two arrays    *)
(* broadcasts an array of length 1 and raises ValueError when the lengths  *)
(* differ otherwise.  np.sum adds from left to right (arrays shorter than  *)
(* 8 elements are not summed pairwise).                                    *)
(***************************************************************************)
Compat(a, b) == Len(a) = Len(b) \/ Len(a) = 1 \/ Len(b) = 1

BLen(a, b) == IF Len(a) = Len(b) THEN Len(a)
              ELSE IF Len(a) = 1 THEN Len(b) ELSE Len(a)

Elem(a, k) == IF Len(a) = 1 THEN a[1] ELSE a[k]

ArrSub(a, b) == [k \in 1..BLen(a, b) |-> Sub(Elem(a, k), Elem(b, k))]
ArrMul(a, b) == [k \in 1..BLen(a, b) |-> Mul(Elem(a, k), Elem(b, k))]
ArrSubEsc(a, s) == [k \in 1..Len(a) |-> Sub(a[k], s)]
ArrDivEsc(a, s) == [k \in 1..Len(a) |-> Div(a[k], s)]
ArrAbs(a) == [k \in 1..Len(a) |-> Abs(a[k])]
Quad(a) == [k \in 1..Len(a) |-> Sq(a[k])]

\* intercepto + inclinacao * X, elementwise
Afim(intercepto, inclinacao, X) ==
    [k \in 1..Len(X) |-> Add(intercepto, Mul(inclinacao, X[k]))]

RECURSIVE SomaAte(_, _)
SomaAte(a, k) == IF k = 0 THEN Zero ELSE Add(SomaAte(a, k - 1), a[k])

np_sum(a) == SomaAte(a, Len(a))

\* np.mean: the sum divided by the count; nan for an empty array
np_mean(a) == Div(np_sum(a), DeInt(Len(a)))

\* np.std: sqrt(mean(|a - mean(a)|^2))
np_std(a) == Sqrt(np_mean(Quad(ArrSubEsc(a, np_mean(a)))))

(***************************************************************************)
(* The methods of RegressaoLinearManual that compute without changing the  *)
(* instance.  A result is [exc, val]: exc names the exception raised       *)
(* ("" when the call returns), val is the value returned.                  *)
(***************************************************************************)
Ret(v) == [exc |-> "", val |-> v]
Raise(e) == [exc |-> e, val |-> <<>>]

\* the empty dict of __init__
Vazio == <<>>

calcular_custo(y_real, y_previsto) ==
    IF Len(y_real) = 0 THEN Raise("ZeroDivisionError")
    ELSE IF ~Compat(y_previsto, y_real) THEN Raise("ValueError")
    ELSE Ret(Mul(Fl(1, 2 * Len(y_real)), np_sum(Quad(ArrSub(y_previsto, y_real)))))

\* the two gradients, d being y_previsto - y_real
gradientes_de(m, d, X) ==
    IF ~Compat(d, X) THEN Raise("ValueError")
    ELSE Ret(<<Mul(Fl(1, m), np_sum(d)), Mul(Fl(1, m), np_sum(ArrMul(d, X)))>>)

calcular_gradientes(X, y_real, y_previsto) ==
    IF Len(y_real) = 0 THEN Raise("ZeroDivisionError")
    ELSE IF ~Compat(y_previsto, y_real) THEN Raise("ValueError")
    ELSE gradientes_de(Len(y_real), ArrSub(y_previsto, y_real), X)

\* prever without the check of the coefficients
prever_sem_erro(coef, X) ==
    IF coef = Vazio THEN Ret(X)
    ELSE Ret(Afim(coef.intercepto, coef.inclinacao, X))

\* prever centering X as treinar does
prever_normalizado(coef, X) ==
    IF coef = Vazio THEN Raise("ValueError")
    ELSE Ret(Afim(coef.intercepto, coef.inclinacao, ArrSubEsc(X, coef.X_mean)))

prever(coef, X) ==
    IF coef = Vazio THEN Raise("ValueError")
    ELSE Ret(Afim(coef.intercepto, coef.inclinacao, X))

\* R2 from the two sums of squares
r_quadrado_de(ss_res, ss_tot) ==
    IF Eq(ss_tot, Zero) THEN Um ELSE Sub(Um, Div(ss_res, ss_tot))

calcular_r_quadrado(y_real, y_previsto) ==
    IF ~Compat(y_real, y_previsto) THEN Raise("ValueError")
    ELSE Ret(r_quadrado_de(np_sum(Quad(ArrSub(y_real, y_previsto))),
                           np_sum(Quad(ArrSubEsc(y_real, np_mean(y_real))))))

\* the metrics of the predictions p, mse being the mean squared error
metricas_de(y_real, p, mse) ==
    [r_quadrado                 |-> calcular_r_quadrado(y_real, p).val,
     erro_quadratico_medio      |-> mse,
     erro_absoluto_medio        |-> np_mean(ArrAbs(ArrSub(y_real, p))),
     raiz_erro_quadratico_medio |-> Sqrt(mse)]

\* obter_metricas_modelo once prever has returned p
metricas_apos_prever(y_real, p) ==
    IF p.exc # "" THEN p
    ELSE IF ~Compat(y_real, p.val) THEN Raise("ValueError")
    ELSE Ret(metricas_de(y_real, p.val, np_mean(Quad(ArrSub(y_real, p.val)))))

\* obter_metricas_modelo computing on X itself instead of calling prever
obter_metricas_sem_prever(coef, X, y_real) == metricas_apos_prever(y_real, Ret(X))

obter_metricas_modelo(coef, X, y_real) == metricas_apos_prever(y_real, prever(coef, X))

(***************************************************************************)
(* Bounds and input sets.                                                  *)
(***************************************************************************)
\* longest array passed to treinar
MaxLen == 3
\* largest max_iteracoes of a trained instance
MaxIter == 3
\* treinar calls on one instance when it is re-trained
MaxTreinos == 2

\* the instance of analisar_acao_individual and the one of exibir_resultados
Inst == {"analise", "exibicao"}

\* [a, a + b, a + 2b, ...] of length n
Amostra(a, b, n) == [k \in 1..n |-> DeInt(a + b * (k - 1))]

\* X: day indices np.arange(n), or n equal values
XSet == {Amostra(0, 1, n) : n \in 0..MaxLen} \cup {Amostra(1, 0, n) : n \in 1..MaxLen}
\* y: prices on a line, or n equal prices
YSet == {Amostra(2, 2, n) : n \in 0..MaxLen} \cup {Amostra(2, 0, n) : n \in 1..MaxLen}
DadosSet == XSet \X YSet

\* the samples an instance is re-trained on: a line, equal prices, equal days,
\* and lengths that do not match
RetreinoSet == {<<Amostra(0, 1, 2), Amostra(2, 2, 2)>>,
                <<Amostra(0, 1, 2), Amostra(2, 0, 2)>>,
                <<Amostra(1, 0, 2), Amostra(2, 2, 2)>>,
                <<Amostra(0, 1, 2), Amostra(2, 2, 0)>>}

TaxaSet == {<<1, 2>>}
TolSet == {<<1, 2>>}
IterSet == (-1)..MaxIter
\* draws of np.random.randn()
Sorteio == {Zero, DeInt(12)}

\* arguments of prever, of obter_metricas_modelo and of calcular_r_quadrado
PreverSet == {<<DeInt(3)>>, <<DeInt(0), DeInt(2)>>}
MetricasSet == {<<Amostra(0, 1, 2), Amostra(2, 2, 2)>>,
                <<Amostra(0, 1, 2), Amostra(2, 0, 3)>>,
                <<Amostra(0, 1, 0), Amostra(2, 2, 0)>>}
RQuadradoSet == {<<Amostra(2, 2, 2), Amostra(2, 0, 2)>>,
                 <<Amostra(2, 2, 2), Amostra(1, 1, 3)>>}

\* arguments of calcular_r_quadrado when it is exercised on its own
SeqsAte(S, n) == UNION {[1..k -> S] : k \in 0..n}
RealSet == SeqsAte({DeInt(1), DeInt(7)}, MaxLen)
PrevistoSet == {Amostra(2, 0, n) : n \in 0..MaxLen} \cup {Amostra(0, 4, n) : n \in 1..MaxLen}

\* the defaults of __init__
taxa_padrao == Fl(1, 100)
iteracoes_padrao == 1000
tolerancia_padrao == Fl(1, 1000000)

VARIABLES
    criado,            \* criado[i]: instance i has been constructed
    taxa_aprendizado, max_iteracoes, tolerancia,
    coeficientes, historico_custo,
    treinos,           \* treinos[i]: treinar calls made on instance i
    sucessos,          \* sucessos[i]: treinar calls on i that returned
    pc, loc,           \* the running treinar call and its locals
    ult,               \* the last call: what it was given and what it returned
    resultado          \* the entry of resultados kept by analisar_acao_individual

engine == <<criado, taxa_aprendizado, max_iteracoes, tolerancia,
            coeficientes, historico_custo>>
vars == <<criado, taxa_aprendizado, max_iteracoes, tolerancia, coeficientes,
          historico_custo, treinos, sucessos, pc, loc, ult, resultado>>

Nenhum == [op |-> "nenhuma", self |-> 0, exc |-> "", val |-> <<>>, arg |-> <<>>]
SemChamada == [self |-> 0]
SemResultado == [n_dias |-> -1]

Ult(op, i, r, arg) == [op |-> op, self |-> i, exc |-> r.exc, val |-> r.val, arg |-> arg]

Init ==
    /\ criado = [i \in Inst |-> FALSE]
    /\ taxa_aprendizado = [i \in Inst |-> Zero]
    /\ max_iteracoes = [i \in Inst |-> 0]
    /\ tolerancia = [i \in Inst |-> Zero]
    /\ coeficientes = [i \in Inst |-> Vazio]
    /\ historico_custo = [i \in Inst |-> <<>>]
    /\ treinos = [i \in Inst |-> 0]
    /\ sucessos = [i \in Inst |-> 0]
    /\ pc = "idle"
    /\ loc = SemChamada
    /\ ult = Nenhum
    /\ resultado = SemResultado

\* the state __init__ leaves
NovaInstancia(i, taxa, iter, tol) ==
    /\ criado' = [criado EXCEPT ![i] = TRUE]
    /\ taxa_aprendizado' = [taxa_aprendizado EXCEPT ![i] = taxa]
    /\ max_iteracoes' = [max_iteracoes EXCEPT ![i] = iter]
    /\ tolerancia' = [tolerancia EXCEPT ![i] = tol]
    /\ historico_custo' = [historico_custo EXCEPT ![i] = <<>>]

\* a constructor that starts from zero coefficients instead of an empty dict
Construtor_com_coeficientes(i, taxa, iter, tol) ==
    /\ pc = "idle"
    /\ ~criado[i]
    /\ NovaInstancia(i, taxa, iter, tol)
    /\ coeficientes' = [coeficientes EXCEPT ![i] =
           [intercepto |-> Zero, inclinacao |-> Zero, X_mean |-> Zero, X_std |-> Zero]]
    /\ ult' = Ult("construtor", i, Ret(<<>>), <<>>)
    /\ UNCHANGED <<treinos, sucessos, pc, loc, resultado>>

\* RegressaoLinearManual(taxa, iter, tol)
Construtor(i, taxa, iter, tol) ==
    /\ pc = "idle"
    /\ ~criado[i]
    /\ NovaInstancia(i, taxa, iter, tol)
    /\ coeficientes' = [coeficientes EXCEPT ![i] = Vazio]
    /\ ult' = Ult("construtor", i, Ret(<<>>), <<>>)
    /\ UNCHANGED <<treinos, sucessos, pc, loc, resultado>>

\* the locals of treinar when the loop starts
treinar_locais(i, X, y, r0, r1, X_mean, X_std) ==
    [self       |-> i,
     X          |-> X,
     y          |-> y,
     X_mean     |-> X_mean,
     X_std      |-> X_std,
     X_norm     |-> IF Ne(X_std, Zero) THEN ArrDivEsc(ArrSubEsc(X, X_mean), X_std)
                    ELSE ArrSubEsc(X, X_mean),
     intercepto |-> Mul(r0, taxa_padrao),
     inclinacao |-> Mul(r1, taxa_padrao),
     iteracao   |-> 0,
     parou      |-> FALSE,
     n          |-> 0,
     h0         |-> Len(historico_custo[i])]

\* treinar, up to the loop: arrays, normalization, random initial coefficients
treinar_inicio(i, X, y, r0, r1) == treinar_locais(i, X, y, r0, r1, np_mean(X), np_std(X))

TreinarChamada(i, X, y, r0, r1) ==
    /\ pc = "idle"
    /\ criado[i]
    /\ max_iteracoes[i] <= MaxIter
    /\ pc' = "loop"
    /\ loc' = treinar_inicio(i, X, y, r0, r1)
    /\ treinos' = [treinos EXCEPT ![i] = @ + 1]
    /\ ult' = Nenhum
    /\ UNCHANGED <<engine, sucessos, resultado>>

\* a convergence test satisfied by either coefficient
convergiu_qualquer(novo_intercepto, intercepto, nova_inclinacao, inclinacao, tol) ==
    \/ Lt(Abs(Sub(novo_intercepto, intercepto)), tol)
    \/ Lt(Abs(Sub(nova_inclinacao, inclinacao)), tol)

\* the convergence test of the loop
convergiu(novo_intercepto, intercepto, nova_inclinacao, inclinacao, tol) ==
    /\ Lt(Abs(Sub(novo_intercepto, intercepto)), tol)
    /\ Lt(Abs(Sub(nova_inclinacao, inclinacao)), tol)

\* the locals after the convergence test on the proposed coefficients
treinar_teste(l, novo_intercepto, nova_inclinacao, tol) ==
    IF convergiu(novo_intercepto, l.intercepto, nova_inclinacao, l.inclinacao, tol)
    THEN [l EXCEPT !.parou = TRUE, !.n = @ + 1]
    ELSE [l EXCEPT !.intercepto = novo_intercepto,
                   !.inclinacao = nova_inclinacao,
                   !.iteracao = @ + 1,
                   !.n = @ + 1]

\* the locals after one pass of the loop body that raised nothing
treinar_passo(l, g, taxa, tol) ==
    treinar_teste(l, Sub(l.intercepto, Mul(taxa, g[1])), Sub(l.inclinacao, Mul(taxa, g[2])), tol)

\* a pass that records its cost twice
treinar_historico_duplo(h, custo) == Append(Append(h, custo), custo)

\* the cost history after the pass: the cost is appended once computed
treinar_historico(h, custo) == Append(h, custo)

\* the pass of the loop body with cost c and gradients g
IteracaoCom(i, c, g) ==
    IF c.exc # ""
    THEN /\ pc' = "idle"
         /\ ult' = Ult("treinar", i, c, loc)
         /\ loc' = SemChamada
         /\ UNCHANGED historico_custo
    ELSE /\ historico_custo' = [historico_custo EXCEPT ![i] = treinar_historico(@, c.val)]
         /\ IF g.exc # ""
            THEN /\ pc' = "idle"
                 /\ ult' = Ult("treinar", i, g, loc)
                 /\ loc' = SemChamada
            ELSE /\ loc' = treinar_passo(loc, g.val, taxa_aprendizado[i], tolerancia[i])
                 /\ UNCHANGED <<pc, ult>>

IteracaoDe(i, y_previsto) ==
    IteracaoCom(i, calcular_custo(loc.y, y_previsto),
                calcular_gradientes(loc.X_norm, loc.y, y_previsto))

\* one pass of the loop body
TreinarIteracao ==
    /\ pc = "loop"
    /\ ~loc.parou
    /\ loc.iteracao < max_iteracoes[loc.self]
    /\ IteracaoDe(loc.self, Afim(loc.intercepto, loc.inclinacao, loc.X_norm))
    /\ UNCHANGED <<criado, taxa_aprendizado, max_iteracoes, tolerancia,
                   coeficientes, treinos, sucessos, resultado>>

\* a de-normalization that adds the shift of the mean instead of removing it
desnormalizar_sinal_trocado(intercepto, inclinacao, X_mean, X_std) ==
    IF Ne(X_std, Zero)
    THEN [intercepto |-> Add(intercepto, Div(Mul(inclinacao, X_mean), X_std)),
          inclinacao |-> Div(inclinacao, X_std),
          X_mean     |-> X_mean,
          X_std      |-> X_std]
    ELSE [intercepto |-> Add(intercepto, Mul(inclinacao, X_mean)),
          inclinacao |-> inclinacao,
          X_mean     |-> X_mean,
          X_std      |-> X_std]

\* the coefficients in the scale of X
desnormalizar(intercepto, inclinacao, X_mean, X_std) ==
    IF Ne(X_std, Zero)
    THEN [intercepto |-> Sub(intercepto, Div(Mul(inclinacao, X_mean), X_std)),
          inclinacao |-> Div(inclinacao, X_std),
          X_mean     |-> X_mean,
          X_std      |-> X_std]
    ELSE [intercepto |-> Sub(intercepto, Mul(inclinacao, X_mean)),
          inclinacao |-> inclinacao,
          X_mean     |-> X_mean,
          X_std      |-> X_std]

\* what treinar returns once the coefficients are stored: the final prints
\* read historico_custo[-1]
treinar_retorno(h, coef) ==
    IF h = <<>> THEN Raise("IndexError") ELSE Ret(coef)

\* the coefficients are stored, then the final prints run
FimCom(i, coef) ==
    /\ coeficientes' = [coeficientes EXCEPT ![i] = coef]
    /\ ult' = Ult("treinar", i, treinar_retorno(historico_custo[i], coef), loc)
    /\ sucessos' = [sucessos EXCEPT ![i] = IF historico_custo[i] = <<>> THEN @ ELSE @ + 1]

\* treinar, after the loop
TreinarFim ==
    /\ pc = "loop"
    /\ loc.parou \/ loc.iteracao >= max_iteracoes[loc.self]
    /\ FimCom(loc.self, desnormalizar(loc.intercepto, loc.inclinacao, loc.X_mean, loc.X_std))
    /\ pc' = "idle"
    /\ loc' = SemChamada
    /\ UNCHANGED <<criado, taxa_aprendizado, max_iteracoes, tolerancia,
                   historico_custo, treinos, resultado>>

Prever(i, X) ==
    /\ pc = "idle"
    /\ criado[i]
    /\ ult' = Ult("prever", i, prever(coeficientes[i], X), X)
    /\ UNCHANGED <<engine, treinos, sucessos, pc, loc, resultado>>

CalcularRQuadrado(i, y_real, y_previsto) ==
    /\ pc = "idle"
    /\ criado[i]
    /\ ult' = Ult("calcular_r_quadrado", i, calcular_r_quadrado(y_real, y_previsto),
                  <<y_real, y_previsto>>)
    /\ UNCHANGED <<engine, treinos, sucessos, pc, loc, resultado>>

ObterMetricasModelo(i, X, y_real) ==
    /\ pc = "idle"
    /\ criado[i]
    /\ ult' = Ult("obter_metricas_modelo", i,
                  obter_metricas_modelo(coeficientes[i], X, y_real), <<X, y_real>>)
    /\ UNCHANGED <<engine, treinos, sucessos, pc, loc, resultado>>

\* analisar_acao_individual keeps the coefficients treinar returned and dias
AnalisarAcaoIndividual ==
    /\ pc = "idle"
    /\ ult.op = "treinar"
    /\ ult.exc = ""
    /\ resultado = SemResultado
    /\ resultado' = [coeficientes |-> ult.val, n_dias |-> Len(ult.arg.X)]
    /\ UNCHANGED <<engine, treinos, sucessos, pc, loc, ult>>

\* the days exibir_resultados predicts, after n days of data
proximos_dias(n) == <<Fl(n, 1), Fl(n + 5, 1), Fl(n + 10, 1)>>

\* exibir_resultados: a new instance with the defaults is given the kept
\* coefficients and predicts the next days
ExibirResultados(j) ==
    /\ pc = "idle"
    /\ ~criado[j]
    /\ resultado # SemResultado
    /\ NovaInstancia(j, taxa_padrao, iteracoes_padrao, tolerancia_padrao)
    /\ coeficientes' = [coeficientes EXCEPT ![j] = resultado.coeficientes]
    /\ ult' = Ult("prever", j, prever(resultado.coeficientes, proximos_dias(resultado.n_dias)),
                  proximos_dias(resultado.n_dias))
    /\ UNCHANGED <<treinos, sucessos, pc, loc, resultado>>

\* the program: an instance is constructed, trained once and used
Next ==
    \/ \E taxa \in TaxaSet, iter \in IterSet, tol \in TolSet :
           Construtor("analise", taxa, iter, tol)
    \/ \E i \in Inst, d \in DadosSet, r0 \in Sorteio, r1 \in Sorteio :
           treinos[i] = 0 /\ TreinarChamada(i, d[1], d[2], r0, r1)
    \/ TreinarIteracao
    \/ TreinarFim
    \/ \E i \in Inst, X \in PreverSet : Prever(i, X)
    \/ \E i \in Inst, d \in RQuadradoSet : CalcularRQuadrado(i, d[1], d[2])
    \/ \E i \in Inst, d \in MetricasSet : ObterMetricasModelo(i, d[1], d[2])
    \/ AnalisarAcaoIndividual
    \/ ExibirResultados("exibicao")

Spec == Init /\ [][Next]_vars

\* an instance that is trained again and again
NextRetreino ==
    \/ \E taxa \in TaxaSet, iter \in IterSet, tol \in TolSet :
           Construtor("analise", taxa, iter, tol)
    \/ \E d \in RetreinoSet, r0 \in Sorteio, r1 \in Sorteio :
           treinos["analise"] < MaxTreinos /\ TreinarChamada("analise", d[1], d[2], r0, r1)
    \/ TreinarIteracao
    \/ TreinarFim

SpecRetreino == Init /\ [][NextRetreino]_vars

\* calcular_r_quadrado alone, on the instance analisar_acao_individual constructs
NextRQuadrado ==
    \/ Construtor("analise", taxa_padrao, iteracoes_padrao, tolerancia_padrao)
    \/ \E y_real \in RealSet, y_previsto \in PrevistoSet :
           CalcularRQuadrado("analise", y_real, y_previsto)

SpecRQuadrado == Init /\ [][NextRQuadrado]_vars

(***************************************************************************)
(* The claims.                                                             *)
(***************************************************************************)
\* X and y are a sample treinar accepts: equal lengths, not empty
BemFormado(X, y) == Len(X) = Len(y) /\ Len(X) >= 1

Max0(m) == IF m < 0 THEN 0 ELSE m

Ultimo(h) == h[Len(h)]

TodosIguais(a) == \A k \in 1..Len(a) : a[k] = a[1]

\* C1: after a second successful treinar on an instance, the coefficients are
\* those the call returned and the cost history holds exactly the costs of the
\* iterations that call executed.
C1_RetreinoSobrescreve ==
    (ult.op = "treinar" /\ ult.exc = "" /\ sucessos[ult.self] >= 2) =>
        /\ coeficientes[ult.self] = ult.val
        /\ Len(historico_custo[ult.self]) = ult.arg.n

\* C2: treinar raises, and returns no coefficients, whenever X and y differ in
\* length or one of them is empty, for every max_iteracoes >= 1.
C2_FormaInvalidaFalha ==
    (ult.op = "treinar" /\ max_iteracoes[ult.self] >= 1
        /\ ~BemFormado(ult.arg.X, ult.arg.y)) => ult.exc # ""

\* C3: a prever call on an instance whose coefficients are empty raises
\* ValueError, returns nothing and leaves coefficients and cost history as
\* they were.
C3_PreverSemTreino ==
    [][(pc = "idle" /\ ult'.op = "prever" /\ criado[ult'.self]
           /\ coeficientes[ult'.self] = Vazio) =>
          (ult'.exc = "ValueError" /\ ult'.val = <<>>
              /\ UNCHANGED <<coeficientes, historico_custo>>)]_vars

C3_Testemunha ==
    /\ ult.op = "prever" /\ ult.exc = "ValueError"
    /\ treinos[ult.self] = 0 /\ coeficientes[ult.self] = Vazio

\* C4, as claimed: calcular_r_quadrado and obter_metricas_modelo both raise on
\* an instance on which no treinar call has returned.
C4_AvaliacaoExigeTreino ==
    (ult.op \in {"calcular_r_quadrado", "obter_metricas_modelo"}
        /\ sucessos[ult.self] = 0) => ult.exc # ""

\* C4, amended: obter_metricas_modelo raises ValueError whenever the
\* coefficients of the instance are empty; calcular_r_quadrado does not read
\* the instance and returns a value for any two arrays of equal length,
\* trained or not.
C4_MetricasExigeCoeficientes ==
    /\ (ult.op = "obter_metricas_modelo" /\ coeficientes[ult.self] = Vazio) =>
           ult.exc = "ValueError"
    /\ (ult.op = "calcular_r_quadrado" /\ Len(ult.arg[1]) = Len(ult.arg[2])) =>
           ult.exc = ""

C4_Testemunha ==
    /\ ult.op = "obter_metricas_modelo" /\ ult.exc = "ValueError"
    /\ sucessos[ult.self] = 0 /\ coeficientes[ult.self] = Vazio

\* C5: on an instance constructed with max_iteracoes <= 0, treinar appends
\* nothing to the cost history and leaves the coefficients empty, so a later
\* prever raises as on a fresh instance.
C5_SemIteracoesNaoTreina ==
    /\ \A i \in Inst : (criado[i] /\ max_iteracoes[i] <= 0 /\ pc = "idle") =>
           (coeficientes[i] = Vazio /\ historico_custo[i] = <<>>)
    /\ (ult.op = "prever" /\ max_iteracoes[ult.self] <= 0) => ult.exc # ""

C6Limites ==
    /\ pc = "loop" =>
           /\ loc.n <= Max0(max_iteracoes[loc.self])
           /\ loc.n = loc.iteracao + (IF loc.parou THEN 1 ELSE 0)
           /\ BemFormado(loc.X, loc.y) =>
                  Len(historico_custo[loc.self]) = loc.h0 + loc.n
    /\ (pc = "idle" /\ ult.op = "treinar" /\ BemFormado(ult.arg.X, ult.arg.y)) =>
           /\ ult.exc \in {"", "IndexError"}
           /\ ult.arg.n <= Max0(max_iteracoes[ult.self])
           /\ ult.arg.n < max_iteracoes[ult.self] => ult.arg.parou
           /\ Len(historico_custo[ult.self]) = ult.arg.h0 + ult.arg.n

C7_RQuadradoConstante ==
    (ult.op = "calcular_r_quadrado" /\ ult.exc = "") =>
        IF TodosIguais(ult.arg[1]) THEN ult.val = Um
        ELSE /\ ult.val = Sub(Um, Div(np_sum(Quad(ArrSub(ult.arg[1], ult.arg[2]))),
                                      np_sum(Quad(ArrSubEsc(ult.arg[1], np_mean(ult.arg[1]))))))
             /\ Lt(np_sum(Quad(ArrSubEsc(ult.arg[1], np_mean(ult.arg[1])))),
                   np_sum(Quad(ArrSub(ult.arg[1], ult.arg[2])))) => Lt(ult.val, Zero)

\* C8: on an instance with coefficients, a prever or obter_metricas_modelo
\* call changes neither coefficients, cost history nor hyperparameters, and
\* prever returns intercepto + inclinacao * x for each x of its argument; so
\* two prever calls with the same argument return the same array.
C8_PreverPuro ==
    [][(pc = "idle" /\ ult'.op \in {"prever", "obter_metricas_modelo"}
           /\ criado[ult'.self] /\ coeficientes[ult'.self] # Vazio) =>
          /\ UNCHANGED engine
          /\ ult'.op = "prever" =>
                 /\ ult'.exc = ""
                 /\ ult'.val = [k \in 1..Len(ult'.arg) |->
                                  Add(coeficientes[ult'.self].intercepto,
                                      Mul(coeficientes[ult'.self].inclinacao, ult'.arg[k]))]]_vars

C8_Testemunha ==
    /\ ult.op = "prever" /\ ult.exc = "" /\ Len(ult.val) = 2
    /\ sucessos[ult.self] >= 1
    /\ coeficientes[ult.self].inclinacao # Zero

C10Proposta(l) ==
    LET g == calcular_gradientes(l.X_norm, l.y,
                                 Afim(l.intercepto, l.inclinacao, l.X_norm)).val
    IN  <<Sub(l.intercepto, Mul(taxa_aprendizado[l.self], g[1])),
          Sub(l.inclinacao, Mul(taxa_aprendizado[l.self], g[2]))>>

C10Ambos(l, p) ==
    /\ Lt(Abs(Sub(p[1], l.intercepto)), tolerancia[l.self])
    /\ Lt(Abs(Sub(p[2], l.inclinacao)), tolerancia[l.self])

C10Custo(l) == calcular_custo(l.y, Afim(l.intercepto, l.inclinacao, l.X_norm)).val

C10Passo(l, p) ==
    /\ loc'.parou = C10Ambos(l, p)
    /\ loc'.parou => (loc'.intercepto = l.intercepto /\ loc'.inclinacao = l.inclinacao)
    /\ ~loc'.parou => (loc'.intercepto = p[1] /\ loc'.inclinacao = p[2])
    /\ Ultimo(historico_custo'[l.self]) = C10Custo(l)

\* C10: a pass of the loop stops it exactly when the update it proposes
\* changes both intercept and slope by less than tolerancia; the update that
\* stopped the loop is not applied, and the coefficients stored are the
\* de-normalized coefficients held before it, whose cost is the last entry of
\* the cost history.
C10_Convergencia ==
    [][/\ (pc = "loop" /\ pc' = "loop" /\ loc'.n = loc.n + 1) =>
              C10Passo(loc, C10Proposta(loc))
       /\ (pc = "loop" /\ pc' = "idle" /\ loc.parou) =>
              /\ coeficientes'[loc.self].inclinacao =
                     (IF Ne(loc.X_std, Zero) THEN Div(loc.inclinacao, loc.X_std)
                      ELSE loc.inclinacao)
              /\ coeficientes'[loc.self].intercepto =
                     (IF Ne(loc.X_std, Zero)
                      THEN Sub(loc.intercepto, Div(Mul(loc.inclinacao, loc.X_mean), loc.X_std))
                      ELSE Sub(loc.intercepto, Mul(loc.inclinacao, loc.X_mean)))
              /\ Ultimo(historico_custo'[loc.self]) = C10Custo(loc)
              /\ ult'.val = coeficientes'[loc.self]]_vars

C10_Testemunha ==
    /\ pc = "idle" /\ ult.op = "treinar" /\ ult.exc = ""
    /\ ult.arg.parou /\ ult.arg.n >= 2
    /\ ult.arg.inclinacao # Zero /\ Ne(ult.arg.X_std, Zero)

\* raw values of x on which the stored coefficients are compared with the
\* normalized ones
XBruto == {DeInt(0), DeInt(3), <<5, 2>>}

\* exact rational arithmetic, to measure rounding
ExSoma(x, y) == Frac(x[1] * y[2] + y[1] * x[2], x[2] * y[2])
ExProd(x, y) == Frac(x[1] * y[1], x[2] * y[2])
ExQuoc(x, y) == IF y[1] > 0 THEN Frac(x[1] * y[2], x[2] * y[1])
                ELSE Frac(-(x[1] * y[2]), x[2] * (-y[1]))
LeG(x, y, g) == x[1] * (y[2] \div g) <= y[1] * (x[2] \div g)
Le(x, y) == LeG(x, y, GCD(x[2], y[2]))

\* norm(x) of the call whose locals are l, as treinar normalizes X
C11Norm(l, x) ==
    IF Ne(l.X_std, Zero) THEN Div(Sub(x, l.X_mean), l.X_std) ELSE Sub(x, l.X_mean)

\* intercept + slope * norm(x) on the final normalized pair of the call
C11Normalizado(l, x) == Add(l.intercepto, Mul(l.inclinacao, C11Norm(l, x)))

\* prever(x) on the stored coefficients c
C11Previsto(c, x) == prever(c, <<x>>).val[1]

\* each side is at most four roundings away from the exact value, a relative
\* error of (1 + u)^4 - 1 <= 9u/2 each for u = 2^-Precisao <= 1/16
C11Gama == Frac(9, 2^Precisao)

C11Escala(l) == IF Ne(l.X_std, Zero) THEN l.X_std ELSE Um

\* |intercept| + |slope * mean / std| + |slope * x / std|, exactly
C11Grandeza(l, x, s) ==
    ExSoma(Abs(l.intercepto),
           ExSoma(Abs(ExQuoc(ExProd(l.inclinacao, l.X_mean), s)),
                  Abs(ExQuoc(ExProd(l.inclinacao, x), s))))

C11Perto(p, q, limite) == Le(Abs(ExSoma(p, Neg(q))), limite)

C11TemNaN(l) ==
    IsNaN(l.intercepto) \/ IsNaN(l.inclinacao) \/ IsNaN(l.X_mean) \/ IsNaN(l.X_std)

\* the call whose locals are l has stored the coefficients c
C11Consistente(l, c) ==
    /\ c.X_mean = np_mean(l.X)
    /\ c.X_std = np_std(l.X)
    /\ Eq(l.X_std, Zero) => c.inclinacao = l.inclinacao
    /\ \A x \in XBruto :
           IF C11TemNaN(l)
           THEN IsNaN(C11Previsto(c, x)) /\ IsNaN(C11Normalizado(l, x))
           ELSE C11Perto(C11Previsto(c, x), C11Normalizado(l, x),
                         ExProd(C11Gama, C11Grandeza(l, x, C11Escala(l))))

C11Armazenou == pc = "idle" /\ ult.op = "treinar" /\ ult.exc \in {"", "IndexError"}

\* C11, as claimed: the coefficients a treinar call stores satisfy
\* prever(x) = intercept + slope * norm(x) for every raw x, with
\* norm(x) = (x - X_mean)/X_std when X_std != 0 and x - X_mean otherwise, and the
\* stored X_mean and X_std are those computed from the X of the call, for every
\* call that returned on a well-formed sample.
C11_DesnormalizacaoExata ==
    (C11Armazenou /\ ult.exc = "" /\ BemFormado(ult.arg.X, ult.arg.y)) =>
        /\ coeficientes[ult.self].X_mean = np_mean(ult.arg.X)
        /\ coeficientes[ult.self].X_std = np_std(ult.arg.X)
        /\ \A x \in XBruto :
               C11Previsto(coeficientes[ult.self], x) = C11Normalizado(ult.arg, x)

\* C11, amended: the stored X_mean and X_std are those computed from the X of
\* the call, no division is performed when X_std == 0, and prever(x) equals
\* intercept + slope * norm(x) up to rounding: the two differ by at most
\* 9 * 2^-p * (|intercept| + |slope * X_mean / X_std| + |slope * x / X_std|)
\* for floats of p significant bits (X_std read as 1 when it is 0), and both
\* are nan when a value of the call is nan.
C11_DesnormalizacaoConsistente ==
    C11Armazenou => C11Consistente(ult.arg, coeficientes[ult.self])

C11_Testemunha ==
    /\ C11Armazenou /\ ult.exc = ""
    /\ BemFormado(ult.arg.X, ult.arg.y)
    /\ Ne(ult.arg.X_std, Zero) /\ ult.arg.X_std # Um
    /\ ult.arg.inclinacao # Zero /\ ult.arg.n >= 1
    /\ \E x \in XBruto :
           C11Previsto(coeficientes[ult.self], x) # C11Normalizado(ult.arg, x)
=============================================================================
